---- MODULE Spec2Model ----
(***************************************************************************)
(* A model of src/camera/camera_linux.cpp: the single capture session kept *)
(* in six file-scope statics, the seven entry points exported to the       *)
(* caller, and the completion handler the camera stack runs on its own     *)
(* thread.  The camera stack (libcamera) is an external collaborator: each *)
(* of its answers is an input drawn from a small set.                      *)
(***************************************************************************)
EXTENDS Integers, Sequences, FiniteSets

\* ------------------------------------------------------------------ bounds
\* Largest width/height a caller passes and a sensor reports.
MaxDim == 2
\* Largest number of buffers the stack allocates for the visible stream.
MaxBuffers == 2
\* Number of open_camera calls in one behaviour (caps the call counters).
MaxOpens == 2
\* buffer_at inputs: planes per buffer, plane offsets, plane lengths.  Offsets
\* and lengths stay far below 2^32, so no unsigned int sum in buffer_at wraps.
MaxPlanes == 2
MaxOffset == 3
MaxLength == 2

\* ------------------------------------------------------- program constants
EINVAL == 22
YUV420 == "YUV420"
SBGGR8 == "SBGGR8"
\* A format the stack may substitute for the requested one.
OtherFormat == "NV12"
\* A null unique_ptr/shared_ptr is object id 0; a null configuration is <<>>.
NULL == 0
NoFormat == "none"

\* Non-zero statuses the stack returns from a failing call.
StackErrors == {-16}

Dims == 1..MaxDim
Sizes == [width : Dims, height : Dims]
\* Callback tokens (opaque to this code).
Handles == {1, 2}
\* File descriptors of buffer planes.
Fds == {3, 4}
\* properties().get(PixelArraySize): a size, or no value.
PixelArraySizes ==
  {[has_value |-> TRUE, value |-> [width |-> d, height |-> d]] : d \in Dims}
  \cup {[has_value |-> FALSE, value |-> [width |-> 0, height |-> 0]]}

\* ---------------------------------------------------------------- state
VARIABLES
  cam_manager,      \* static std::unique_ptr<CameraManager>
  allocator,        \* static std::unique_ptr<FrameBufferAllocator>
  config,           \* static std::unique_ptr<CameraConfiguration>
  camera,           \* static std::shared_ptr<Camera>
  requests,         \* static std::vector<std::unique_ptr<Request>>
  callback_handle,  \* static uintptr_t
  stack,            \* the stack's tally of successful calls made by this code
  sensor,           \* the device's PixelArraySize property, a std::optional<Size>
  opens,            \* open_camera calls made so far
  crashed,          \* "no", or how the process ended
  lastOp            \* the last entry point or handler that ran, and its result

vars == <<cam_manager, allocator, config, camera, requests, callback_handle,
          stack, sensor, opens, crashed, lastOp>>

statics == <<cam_manager, allocator, config, camera, requests, callback_handle>>

\* One stack call made by an entry point, with the status it returned.
Call(name, ret) == [call |-> name, ret |-> ret]

\* A stack call made on pooled request i (its cookie).
CallOn(name, i, ret) == [call |-> name, arg |-> i, ret |-> ret]

\* Number of successful calls named `name` in a trace.
RECURSIVE CountOk(_, _)
CountOk(trace, name) ==
  IF trace = <<>> THEN 0
  ELSE (IF Head(trace).call = name /\ Head(trace).ret >= 0 THEN 1 ELSE 0)
       + CountOk(Tail(trace), name)

CallNames == {"cm.start", "cm.stop", "acquire", "release", "allocate", "free"}

Tally(s, trace) == [n \in CallNames |-> s[n] + CountOk(trace, n)]

\* What lastOp holds: the entry point, its arguments (those of open_camera
\* only when it stored a session), the stack's answers, the status returned,
\* the stack calls made in order, and the caller callbacks (requestCallback)
\* invoked while it ran.
Op(name, args, resp, ret, trace, calls) ==
  [op |-> name, args |-> args, resp |-> resp, ret |-> ret, trace |-> trace,
   calls |-> calls]

NoOp == Op("none", <<>>, <<>>, 0, <<>>, <<>>)

\* Calling through a null pointer (an entry point used on a closed session) is
\* undefined behaviour: the process is in no state the model describes.
Undefined(name, args) ==
  /\ crashed' = "undefined"
  /\ lastOp' = Op(name, args, <<>>, 0, <<>>, <<>>)
  /\ UNCHANGED <<cam_manager, allocator, config, camera, requests,
                 callback_handle, stack, sensor, opens>>

\* ------------------------------------------------------------ open_camera
\* The stack's answers to one open_camera call.  validate() leaves in stream 0
\* the format vfmt and, when adjust holds, the smallest size instead of the
\* requested one; allocate is a negative status or the number
\* of buffers; createFail/addFail are the index at which createRequest
\* returns null / addBuffer fails, or -1; race is what the thread of the
\* session being replaced delivers while the statics are assigned (below).
AllSucceed ==
  [cmStart |-> 0, cameras |-> TRUE, acquire |-> 0, genConf |-> TRUE,
   vfmt |-> YUV420, adjust |-> FALSE,
   configure |-> 0, allocate |-> 1, createFail |-> -1, addFail |-> -1,
   race |-> <<>>]

OpenResponses ==
  {[AllSucceed EXCEPT !.cmStart = e] : e \in StackErrors}
  \cup {[AllSucceed EXCEPT !.cameras = FALSE]}
  \cup {[AllSucceed EXCEPT !.acquire = e] : e \in StackErrors}
  \cup {[AllSucceed EXCEPT !.genConf = FALSE]}
  \cup {[AllSucceed EXCEPT !.vfmt = OtherFormat]}
  \cup {[AllSucceed EXCEPT !.configure = e] : e \in StackErrors}
  \cup {[AllSucceed EXCEPT !.allocate = e] : e \in StackErrors}
  \cup UNION {{[AllSucceed EXCEPT !.allocate = n, !.createFail = k],
               [AllSucceed EXCEPT !.allocate = n, !.addFail = k]}
              : <<n, k>> \in {<<n, k>> \in (1..MaxBuffers) \X (0..MaxBuffers - 1) : k < n}}
  \cup {[AllSucceed EXCEPT !.allocate = n, !.adjust = a]
        : n \in 0..MaxBuffers, a \in BOOLEAN}

\* c->generateConfiguration({Viewfinder, Viewfinder}): two stream entries,
\* stream i at position i + 1.
GeneratedConfiguration ==
  LET entry == [size |-> [width |-> 0, height |-> 0], pixelFormat |-> NoFormat,
                bufferCount |-> 0, stride |-> 0, colorSpace |-> "none"]
  IN <<entry, entry>>

\* Lines 96-108: the fields open_camera sets before validating.
RequestedConfiguration(width, height, sensor_size) ==
  [GeneratedConfiguration EXCEPT
     ![1].size = [width |-> width, height |-> height],
     ![1].pixelFormat = YUV420,
     ![1].bufferCount = 1,
     ![2].size = sensor_size,
     ![2].pixelFormat = SBGGR8,
     ![2].colorSpace = "Raw",
     ![2].bufferCount = 0]

\* The stack pads each row to an even number of bytes.
AlignedStride(width) == 2 * ((width + 1) \div 2)

\* conf->validate(): the stack adjusts stream 0 to what it supports.  The same
\* stack gives the same answer to the second validate() of line 115.
Validate(conf, r) ==
  LET vsize == IF r.adjust THEN [width |-> 1, height |-> 1] ELSE conf[1].size
  IN [conf EXCEPT ![1].size = vsize, ![1].pixelFormat = r.vfmt,
                  ![1].stride = AlignedStride(vsize.width)]

\* The outcome of one open_camera call.
Returned(ret, trace) ==
  [kind |-> "return", ret |-> ret, trace |-> trace, conf |-> <<>>, reqs |-> <<>>]
Opened(trace, conf, reqs) ==
  [kind |-> "opened", ret |-> 0, trace |-> trace, conf |-> conf, reqs |-> reqs]
Thrown(trace) ==
  [kind |-> "throw", ret |-> 0, trace |-> trace, conf |-> <<>>, reqs |-> <<>>]

\* Mutant of FreeReleaseAndStop: the buffers are not freed.
FreeForgotten == <<Call("release", 0), Call("cm.stop", 0)>>

\* The release calls on the failure paths of open_camera.
StopManager == <<Call("cm.stop", 0)>>
ReleaseAndStop == <<Call("release", 0), Call("cm.stop", 0)>>
FreeReleaseAndStop == <<Call("free", 0), Call("release", 0), Call("cm.stop", 0)>>

\* Mutant of NewRequest: every request is bound to the first buffer.
NewRequestFirstBuffer(i) == [cookie |-> i, buffer |-> 0, state |-> "pending"]

\* A request as createRequest(i) and addBuffer(stream, buffers[i]) leave it.
\* state is "queued" while the device holds the request, and otherwise its
\* Request::status(): "pending", "complete" or "cancelled".
NewRequest(i) == [cookie |-> i, buffer |-> i, state |-> "pending"]

\* Lines 135-154: the loop over the allocated buffers, from index i.
RECURSIVE BuildRequests(_, _, _, _, _, _)
BuildRequests(i, n, r, conf, reqs, trace) ==
  IF i >= n THEN Opened(trace \o <<Call("connect", 0)>>, conf, reqs)
  ELSE IF r.createFail = i
    THEN Returned(-EINVAL, trace \o <<Call("createRequest", -1)>> \o FreeReleaseAndStop)
  ELSE IF r.addFail = i
    THEN Returned(-EINVAL, trace \o <<Call("createRequest", 0), Call("addBuffer", -1)>>
                            \o FreeReleaseAndStop)
  ELSE BuildRequests(i + 1, n, r, conf, Append(reqs, NewRequest(i)),
                     trace \o <<Call("createRequest", 0), Call("addBuffer", 0)>>)

\* Lines 109-154: validate, check the format, configure, allocate, build.
ConfigureAndBuild(width, height, r, t3) ==
  LET conf == Validate(RequestedConfiguration(width, height, sensor.value), r)
      t4 == t3 \o <<Call("validate", 0)>>
      t5 == t4 \o <<Call("validate", 0), Call("configure", r.configure)>>
      t6 == t5 \o <<Call("allocate", r.allocate)>>
  IN IF conf[1].pixelFormat # YUV420 THEN Returned(-EINVAL, t4 \o ReleaseAndStop)
     ELSE IF r.configure # 0 THEN Returned(r.configure, t5 \o ReleaseAndStop)
     ELSE IF r.allocate < 0 THEN Returned(-EINVAL, t6 \o ReleaseAndStop)
     ELSE BuildRequests(0, r.allocate, r, conf, <<>>, t6)

\* Lines 66-154: open_camera up to the point where it stores the session.
OpenOutcome(width, height, r) ==
  LET t1 == <<Call("cm.start", r.cmStart)>>
      t2 == t1 \o <<Call("acquire", r.acquire)>>
      t3 == t2 \o <<Call("generateConfiguration", IF r.genConf THEN 0 ELSE -1)>>
  IN IF r.cmStart # 0 THEN Returned(r.cmStart, t1)
     ELSE IF ~r.cameras THEN Returned(-EINVAL, t1 \o StopManager)
     ELSE IF r.acquire # 0 THEN Returned(r.acquire, t2 \o StopManager)
     ELSE IF ~r.genConf THEN Returned(-EINVAL, t3 \o ReleaseAndStop)
     \* line 104: value() of an empty optional throws std::bad_optional_access
     ELSE IF ~sensor.has_value THEN Thrown(t3)
     ELSE ConfigureAndBuild(width, height, r, t3)

\* What the stack's thread may deliver while the device holds the requests of
\* `reqs` that are queued: a sequence of completions [cookie, status], each
\* held request completing at most once, in any order.
HeldCompletions(reqs) ==
  LET held == {k - 1 : k \in {k \in 1..Len(reqs) : reqs[k].state = "queued"}}
      events == [cookie : held, status : {"complete", "cancelled"}]
  IN {<<>>} \cup
     {d \in UNION {[1..k -> events] : k \in 1..Cardinality(held)} :
        \A i, j \in 1..Len(d) : i < j => d[i].cookie # d[j].cookie}

\* open_camera on a session that is still open: lines 158-163 assign the
\* statics one after another, unsynchronised, while the old session's stack
\* thread lives until line 159 destroys the old manager.  That thread may
\* complete requests the old device holds in that window; requestComplete then
\* reads callback_handle concurrently with line 158 (a data race).  A read of
\* the old token is a completion delivered before the call, a requestComplete
\* step; a read of the new token is an event [cookie, status] of r.race.
OldCompletions(reqs) == HeldCompletions(reqs)

\* The caller callbacks of those events: the old request's cookie with the
\* token line 158 has just stored.
RECURSIVE RaceCallbacks(_, _)
RaceCallbacks(race, handle) ==
  IF race = <<>> THEN <<>>
  ELSE (IF Head(race).status = "cancelled" THEN <<>>
        ELSE <<[handle |-> handle, cookie |-> Head(race).cookie]>>)
       \o RaceCallbacks(Tail(race), handle)

\* Mutant of open_camera: the callback token is stored on entry, before any
\* fallible step.
open_camera_handle_first(width, height, handle, r) ==
  LET o == OpenOutcome(width, height, r) IN
  /\ crashed = "no"
  /\ opens < MaxOpens
  /\ r.race # <<>> => (o.kind = "opened" /\ r.race \in OldCompletions(requests))
  /\ opens' = opens + 1
  /\ stack' = Tally(stack, o.trace)
  /\ lastOp' = Op("open_camera",
                  IF o.kind = "opened" THEN <<width, height, handle>> ELSE <<>>,
                  r, o.ret, o.trace, RaceCallbacks(r.race, handle))
  /\ crashed' = IF o.kind = "throw" THEN "exception" ELSE "no"
  /\ callback_handle' = handle
  /\ IF o.kind = "opened"
       THEN /\ cam_manager' = opens + 1
            /\ camera' = [id |-> opens + 1, running |-> FALSE]
            /\ allocator' = opens + 1
            /\ config' = o.conf
            /\ requests' = o.reqs
       ELSE UNCHANGED <<cam_manager, camera, allocator, config, requests>>
  /\ UNCHANGED sensor

\* int open_camera(unsigned int width, unsigned int height, uintptr_t handle).
\* The statics are assigned on lines 158-163 and nowhere else in the function;
\* move-assignment destroys whatever session they held (the old manager
\* first, so the old stack thread is gone before the old requests are).
open_camera(width, height, handle, r) ==
  LET o == OpenOutcome(width, height, r) IN
  /\ crashed = "no"
  /\ opens < MaxOpens
  /\ r.race # <<>> => (o.kind = "opened" /\ r.race \in OldCompletions(requests))
  /\ opens' = opens + 1
  /\ stack' = Tally(stack, o.trace)
  /\ lastOp' = Op("open_camera",
                  IF o.kind = "opened" THEN <<width, height, handle>> ELSE <<>>,
                  r, o.ret, o.trace, RaceCallbacks(r.race, handle))
  /\ crashed' = IF o.kind = "throw" THEN "exception" ELSE "no"
  /\ IF o.kind = "opened"
       THEN /\ callback_handle' = handle
            /\ cam_manager' = opens + 1
            /\ camera' = [id |-> opens + 1, running |-> FALSE]
            /\ allocator' = opens + 1
            /\ config' = o.conf
            /\ requests' = o.reqs
       ELSE UNCHANGED statics
  /\ UNCHANGED sensor

\* ----------------------------------------------------------- the readers
\* size_t num_buffers().
num_buffers == Len(requests)

\* Mutant of frame_format: the raw stream's entry is read.
frame_format_raw ==
  [width |-> config[2].size.width, height |-> config[2].size.height,
   stride |-> config[2].stride]

\* format frame_format(): the size and stride of config->at(0).
frame_format ==
  [width |-> config[1].size.width, height |-> config[1].size.height,
   stride |-> config[1].stride]

\* -------------------------------------------------------------- buffer_at
\* The plane tables buf->planes() can hold: one to MaxPlanes planes, each a
\* (fd, offset, length).
Planes == [fd : Fds, offset : 0..MaxOffset, length : 1..MaxLength]
Layouts == UNION {[1..k -> Planes] : k \in 1..MaxPlanes}

\* Lines 31-35: the descriptor before the loop.
FirstDescriptor(plane) ==
  [fd |-> plane.fd, offset |-> plane.offset, length |-> plane.offset]

\* Lines 39-44: the loop over buf->planes(), from plane k (the first plane is
\* visited too).
RECURSIVE CheckPlanes(_, _, _)
CheckPlanes(b, planes, k) ==
  IF k > Len(planes) THEN [kind |-> "return", b |-> b]
  ELSE LET p == planes[k] IN
       IF p.fd # b.fd \/ p.offset # b.offset + b.length
       THEN [kind |-> "abort", b |-> b]
       ELSE CheckPlanes([b EXCEPT !.length = b.length + p.length], planes, k + 1)

\* Mutant of BufferAtOutcome: only the first plane is visited.
BufferAtOutcomeFirstPlaneOnly(planes) ==
  LET o == CheckPlanes(FirstDescriptor(planes[1]), <<planes[1]>>, 1)
  IN o

BufferAtOutcome(planes) == CheckPlanes(FirstDescriptor(planes[1]), planes, 1)

\* buffer buffer_at(size_t idx), with `planes` the plane table of buffer idx.
\* A null config or allocator, or an index past the allocated buffers, is
\* undefined behaviour.
buffer_at(idx, planes) ==
  /\ crashed = "no"
  /\ IF config = <<>> \/ allocator = NULL \/ idx >= Len(requests)
       THEN Undefined("buffer_at", <<idx>>)
       ELSE LET o == BufferAtOutcome(planes) IN
            /\ crashed' = IF o.kind = "abort" THEN "abort" ELSE "no"
            /\ lastOp' = Op("buffer_at", <<idx>>, planes, o.b, <<>>, <<>>)
            /\ UNCHANGED <<cam_manager, allocator, config, camera, requests,
                           callback_handle, stack, sensor, opens>>

\* -------------------------------------------------------- requestComplete
\* The caller callbacks requestComplete(req) makes: none for a cancelled
\* request, else requestCallback(callback_handle, req->cookie()).
RequestCallbacks(req, status) ==
  IF status = "cancelled" THEN <<>>
  ELSE <<[handle |-> callback_handle, cookie |-> req.cookie]>>

\* The stack completes queued request i with `status` and emits
\* requestCompleted, which runs requestComplete on the stack's thread.
requestComplete(i, status) ==
  /\ crashed = "no"
  /\ i < Len(requests)
  /\ requests[i + 1].state = "queued"
  /\ requests' = [requests EXCEPT ![i + 1].state = status]
  /\ lastOp' = Op("requestComplete", <<i>>, status, 0, <<>>,
                  RequestCallbacks(requests[i + 1], status))
  /\ UNCHANGED <<cam_manager, allocator, config, camera, callback_handle,
                 stack, sensor, opens, crashed>>

\* ---------------------------------------------------------- queue_request
\* Mutant of QueueCalls: the request is submitted before it is reset.
QueueCallsSubmitFirst(cookie, ret) ==
  <<CallOn("queueRequest", cookie, ret), CallOn("reuse", cookie, 0)>>

\* Lines 52-53: reuse(ReuseBuffers), then camera->queueRequest.
QueueCalls(cookie, ret) ==
  <<CallOn("reuse", cookie, 0), CallOn("queueRequest", cookie, ret)>>

\* int queue_request(size_t buf_idx): requests.at(buf_idx) throws
\* std::out_of_range for an index past the end; otherwise the request is
\* reset with reuse(ReuseBuffers) and handed to camera->queueRequest.
queue_request(buf_idx, ret) ==
  /\ crashed = "no"
  /\ IF buf_idx >= Len(requests)
       THEN /\ crashed' = "exception"
            /\ lastOp' = Op("queue_request", <<buf_idx>>, <<>>, 0, <<>>, <<>>)
            /\ UNCHANGED requests
       ELSE /\ crashed' = "no"
            /\ requests' = [requests EXCEPT
                              ![buf_idx + 1].state =
                                IF ret = 0 \/ @ = "queued" THEN "queued" ELSE "pending"]
            /\ lastOp' = Op("queue_request", <<buf_idx>>, ret, ret,
                            QueueCalls(requests[buf_idx + 1].cookie, ret), <<>>)
  /\ UNCHANGED <<cam_manager, allocator, config, camera, callback_handle,
                 stack, sensor, opens>>

\* ----------------------------------------------------------- start_camera
\* (a - b) / 2 as unsigned int computes it: a - b wraps to a - b + 2^32 when
\* a < b, and half of that is 2^31 - ceil((b - a) / 2).
UIntHalfDiff(a, b) ==
  IF a >= b THEN (a - b) \div 2
  ELSE ((2^30 - 1) + 2^30 - ((b - a + 1) \div 2)) + 1

\* Lines 168-175: the scaler crop, centred in the pixel array (or in
\* (width, height) itself when the device reports no pixel array size).
Crop(width, height) ==
  LET max_size == IF sensor.has_value THEN sensor.value
                  ELSE [width |-> width, height |-> height]
  IN [x |-> UIntHalfDiff(max_size.width, width),
      y |-> UIntHalfDiff(max_size.height, height),
      width |-> width, height |-> height]

\* What the stack's thread does while start_camera is in its loop: the
\* device may complete any request it holds (one the loop has queued, or one
\* it held already when start_camera was called) before the loop queues the
\* next one.  An event [gap, cookie, status] of r.done is the completion of
\* request `cookie` delivered to requestComplete after queueRequest call `gap`
\* of the loop and before call gap + 1.  (A completion before the first call
\* or after the last one is the same as one before start_camera was called or
\* after it has returned, and is a requestComplete step.)
GapEvents(reqs, gap) ==
  {[j \in 1..Len(d) |-> [gap |-> gap, cookie |-> d[j].cookie, status |-> d[j].status]]
     : d \in HeldCompletions(reqs)}

\* The pool after the events of one gap.
RECURSIVE AfterGap(_, _)
AfterGap(reqs, d) ==
  IF d = <<>> THEN reqs
  ELSE AfterGap([reqs EXCEPT ![Head(d).cookie + 1].state = Head(d).status], Tail(d))

\* The r.done a start_camera call answered r can meet on the pool reqs, from
\* loop index i on: in each gap, some completions of what the device holds.
RECURSIVE StartCompletions(_, _, _)
StartCompletions(i, reqs, r) ==
  IF r.start # 0 \/ i >= Len(reqs) \/ r.qfail = i THEN {<<>>}
  ELSE LET q == [reqs EXCEPT ![i + 1].state = "queued"] IN
       IF i + 1 >= Len(reqs) THEN {<<>>}
       ELSE UNION {{d \o rest : rest \in StartCompletions(i + 1, AfterGap(q, d), r)}
                   : d \in GapEvents(q, i + 1)}

\* requestComplete run for the events of one gap, in order: each request takes
\* its status and the caller is called back unless it was cancelled.
RECURSIVE DeliverGap(_, _, _, _)
DeliverGap(reqs, calls, done, gap) ==
  IF done = <<>> THEN [reqs |-> reqs, calls |-> calls]
  ELSE LET e == Head(done) IN
       IF e.gap = gap
       THEN DeliverGap([reqs EXCEPT ![e.cookie + 1].state = e.status],
                       calls \o RequestCallbacks(reqs[e.cookie + 1], e.status),
                       Tail(done), gap)
       ELSE DeliverGap(reqs, calls, Tail(done), gap)

\* Mutant of QueueAll: a failed queueRequest does not end the loop.
RECURSIVE QueueAllKeepsGoing(_, _, _, _, _)
QueueAllKeepsGoing(i, reqs, r, trace, calls) ==
  IF i >= Len(reqs)
    THEN [ret |-> IF r.qfail >= 0 THEN -16 ELSE 0, reqs |-> reqs, trace |-> trace,
          calls |-> calls]
  ELSE IF r.qfail = i
    THEN QueueAllKeepsGoing(i + 1, reqs, r,
                            Append(trace, CallOn("queueRequest", reqs[i + 1].cookie, -16)),
                            calls)
  ELSE LET d == DeliverGap([reqs EXCEPT ![i + 1].state = "queued"], calls, r.done, i + 1)
       IN QueueAllKeepsGoing(i + 1, d.reqs, r,
                             Append(trace, CallOn("queueRequest", reqs[i + 1].cookie, 0)),
                             d.calls)

\* Lines 182-187: queue the pooled requests in order, from index i; r.qfail is
\* the index whose queueRequest fails, or -1; after each successful call the
\* stack's thread delivers the completions r.done has for that gap.
RECURSIVE QueueAll(_, _, _, _, _)
QueueAll(i, reqs, r, trace, calls) ==
  IF i >= Len(reqs) THEN [ret |-> 0, reqs |-> reqs, trace |-> trace, calls |-> calls]
  ELSE IF r.qfail = i
    THEN [ret |-> -16, reqs |-> reqs,
          trace |-> Append(trace, CallOn("queueRequest", reqs[i + 1].cookie, -16)),
          calls |-> calls]
  ELSE LET d == DeliverGap([reqs EXCEPT ![i + 1].state = "queued"], calls, r.done, i + 1)
       IN QueueAll(i + 1, d.reqs, r,
                   Append(trace, CallOn("queueRequest", reqs[i + 1].cookie, 0)),
                   d.calls)

\* Mutant of StartOutcome: a failed queueRequest rolls the earlier ones back.
StartOutcomeRollsBack(r) ==
  LET t1 == <<Call("camera.start", r.start)>>
      o == QueueAll(0, requests, r, t1, <<>>)
  IN IF r.start # 0
       THEN [ret |-> r.start, reqs |-> requests, trace |-> t1, calls |-> <<>>]
     ELSE IF o.ret # 0 THEN [o EXCEPT !.reqs = requests]
     ELSE o

\* What start_camera does once the crop is set: start the device, then queue.
StartOutcome(r) ==
  LET t1 == <<Call("camera.start", r.start)>>
  IN IF r.start # 0
       THEN [ret |-> r.start, reqs |-> requests, trace |-> t1, calls |-> <<>>]
     ELSE QueueAll(0, requests, r, t1, <<>>)

\* The stack's answers to one start_camera call, before the completions its
\* thread delivers meanwhile (r.done, which depends on what the device holds).
StartResponses ==
  {[start |-> e, qfail |-> -1, done |-> <<>>] : e \in StackErrors}
  \cup {[start |-> 0, qfail |-> k, done |-> <<>>] : k \in -1..MaxBuffers - 1}

\* int start_camera(unsigned int width, unsigned int height).
start_camera(width, height, r) ==
  /\ crashed = "no"
  /\ IF camera.id = NULL
       THEN Undefined("start_camera", <<width, height>>)
       ELSE LET o == StartOutcome(r) IN
            /\ r.qfail < Len(requests)
            /\ r.done \in StartCompletions(0, requests, r)
            /\ camera' = [camera EXCEPT !.running = (r.start = 0) \/ @]
            /\ requests' = o.reqs
            /\ stack' = Tally(stack, o.trace)
            /\ lastOp' = Op("start_camera", <<width, height>>,
                            [start |-> r.start, qfail |-> r.qfail, done |-> r.done,
                             crop |-> Crop(width, height)],
                            o.ret, o.trace, o.calls)
            /\ UNCHANGED <<cam_manager, allocator, config, callback_handle,
                           sensor, opens, crashed>>

\* ----------------------------------------------------------- close_camera
\* camera->stop() cancels every request still queued; each is reported to
\* requestComplete with status Cancelled before stop() returns.
\* Mutant of StopCallbacks: the cancellations of stop() reach the caller.
RECURSIVE StopCallbacksNotifying(_)
StopCallbacksNotifying(reqs) ==
  IF reqs = <<>> THEN <<>>
  ELSE (IF Head(reqs).state = "queued"
        THEN RequestCallbacks(Head(reqs), "complete") ELSE <<>>)
       \o StopCallbacksNotifying(Tail(reqs))

RECURSIVE StopCallbacks(_)
StopCallbacks(reqs) ==
  IF reqs = <<>> THEN <<>>
  ELSE (IF Head(reqs).state = "queued"
        THEN RequestCallbacks(Head(reqs), "cancelled") ELSE <<>>)
       \o StopCallbacks(Tail(reqs))

\* The cookies of the requests camera->stop() cancels.
RECURSIVE CancelledByStop(_)
CancelledByStop(reqs) ==
  IF reqs = <<>> THEN <<>>
  ELSE (IF Head(reqs).state = "queued" THEN <<Head(reqs).cookie>> ELSE <<>>)
       \o CancelledByStop(Tail(reqs))

\* Mutants of CloseCalls: the device is never released; the requests are
\* destroyed before the device is stopped.
CloseCallsWithoutRelease ==
  <<Call("camera.stop", 0), Call("requests.clear", 0), Call("free", 0),
    Call("cm.stop", 0)>>
CloseCallsClearFirst ==
  <<Call("requests.clear", 0), Call("camera.stop", 0), Call("free", 0),
    Call("release", 0), Call("cm.stop", 0)>>

\* Lines 192-201, in order.
CloseCalls ==
  <<Call("camera.stop", 0), Call("requests.clear", 0), Call("free", 0),
    Call("release", 0), Call("cm.stop", 0)>>

\* void close_camera(): config and callback_handle are left as they are.
close_camera ==
  /\ crashed = "no"
  /\ IF camera.id = NULL
       THEN Undefined("close_camera", <<>>)
       ELSE /\ requests' = <<>>
            /\ allocator' = NULL
            /\ camera' = [id |-> NULL, running |-> FALSE]
            /\ cam_manager' = NULL
            /\ stack' = Tally(stack, CloseCalls)
            /\ lastOp' = Op("close_camera", <<>>, CancelledByStop(requests), 0,
                            CloseCalls, StopCallbacks(requests))
            /\ UNCHANGED <<config, callback_handle, sensor, opens, crashed>>

Init ==
  /\ cam_manager = NULL
  /\ allocator = NULL
  /\ config = <<>>
  /\ camera = [id |-> NULL, running |-> FALSE]
  /\ requests = <<>>
  /\ callback_handle = 0
  /\ stack = [n \in CallNames |-> 0]
  /\ sensor \in PixelArraySizes
  /\ opens = 0
  /\ crashed = "no"
  /\ lastOp = NoOp

\* The arguments explored with the stack's answers r.  A call that stores no
\* session reads none of its arguments (width and height are only written into
\* the configuration, handle only into callback_handle), so one triple stands
\* for all of them there.
OpenArguments(r) ==
  IF OpenOutcome(1, 1, r).kind = "opened" THEN Dims \X Dims \X Handles
  ELSE {<<1, 1, 1>>}

\* What the replaced session's thread may deliver during a call answered r
\* with arguments a.  The deliveries depend neither on the size asked for nor
\* on what validate() made of it, so they are explored with one size.
OpenRaces(r, a) ==
  IF OpenOutcome(1, 1, r).kind = "opened" /\ a[1] = 1 /\ a[2] = 1 /\ ~r.adjust
    THEN OldCompletions(requests)
  ELSE {<<>>}

\* The sizes explored with the stack's answers r to start_camera.  The crop
\* depends on the sizes and not on the answers, and the rest of start_camera on
\* the answers and not on the sizes: every size is explored with the answers
\* that all succeed, and every other answer with one size.
StartArguments(r, done) ==
  IF r.start = 0 /\ r.qfail = -1 /\ done = <<>> THEN Dims \X Dims
  ELSE {<<1, 1>>}

Next ==
  \/ \E r \in OpenResponses : \E a \in OpenArguments(r) : \E race \in OpenRaces(r, a) :
       open_camera(a[1], a[2], a[3], [r EXCEPT !.race = race])
  \/ \E r \in StartResponses : \E done \in StartCompletions(0, requests, r) :
       \E a \in StartArguments(r, done) :
         start_camera(a[1], a[2], [r EXCEPT !.done = done])
  \/ \E buf_idx \in 0..MaxBuffers, ret \in StackErrors \cup {0} :
       queue_request(buf_idx, ret)
  \/ \E i \in 0..MaxBuffers - 1, status \in {"complete", "cancelled"} :
       requestComplete(i, status)
  \/ close_camera

Spec == Init /\ [][Next]_vars

\* ------------------------------------------- buffer_at on an open session
\* The states open_camera(1, 1, 1, r) leaves from Init when every stack call
\* succeeds and n buffers are allocated.
InitBuf ==
  \E n \in 1..MaxBuffers :
    LET r == [AllSucceed EXCEPT !.allocate = n]
        o == OpenOutcome(1, 1, r)
    IN /\ sensor = [has_value |-> TRUE, value |-> [width |-> MaxDim, height |-> MaxDim]]
       /\ callback_handle = 1
       /\ cam_manager = 1
       /\ camera = [id |-> 1, running |-> FALSE]
       /\ allocator = 1
       /\ config = o.conf
       /\ requests = o.reqs
       /\ stack = Tally([c \in CallNames |-> 0], o.trace)
       /\ opens = 1
       /\ crashed = "no"
       /\ lastOp = Op("open_camera", <<1, 1, 1>>, r, o.ret, o.trace, <<>>)

\* buffer_at changes nothing that a later buffer_at reads, so one call on the
\* freshly opened session stands for every call.
NextBuf ==
  /\ lastOp.op = "open_camera"
  /\ \E idx \in 0..MaxBuffers - 1, planes \in Layouts : buffer_at(idx, planes)

SpecBuf == InitBuf /\ [][NextBuf]_vars

\* ------------------------------------------ the caller the design relies on
\* The caller serialises its calls and keeps to the session's life cycle: it
\* opens a closed session, starts a session that is open and not running,
\* closes an open session, and calls queue_request(i) only to answer a
\* notification for cookie i that it has not answered yet.  Request i is in
\* state "complete" from the notification requestComplete gives for it until
\* the next reuse, so that state is the unanswered notification.
CallerOpen ==
  /\ camera.id = NULL
  /\ \E r \in OpenResponses : \E a \in OpenArguments(r) : \E race \in OpenRaces(r, a) :
       open_camera(a[1], a[2], a[3], [r EXCEPT !.race = race])

CallerStart ==
  /\ camera.id # NULL /\ ~camera.running
  /\ \E r \in StartResponses : \E done \in StartCompletions(0, requests, r) :
       \E a \in StartArguments(r, done) :
         start_camera(a[1], a[2], [r EXCEPT !.done = done])

CallerQueue ==
  \E buf_idx \in 0..MaxBuffers - 1 :
    /\ camera.running
    /\ buf_idx < Len(requests)
    /\ requests[buf_idx + 1].state = "complete"
    /\ \E ret \in StackErrors \cup {0} : queue_request(buf_idx, ret)

\* The stack's thread: it completes a request the device holds.
StackCompletes ==
  \E i \in 0..MaxBuffers - 1, status \in {"complete", "cancelled"} :
    requestComplete(i, status)

CallerClose == camera.id # NULL /\ close_camera

NextCaller ==
  \/ CallerOpen
  \/ CallerStart
  \/ CallerQueue
  \/ StackCompletes
  \/ CallerClose

SpecCaller == Init /\ [][NextCaller]_vars

\* What the scheduling guarantees: the stack's thread goes on completing the
\* requests the device holds, and the caller answers every notification.
\* Nothing makes the caller open, start or close.
SpecCallerFair ==
  SpecCaller /\ WF_vars(StackCompletes) /\ WF_vars(CallerQueue)

\* ================================================================ claims
\* Helpers over the trace of the last operation.
RECURSIVE CountCalls(_, _)
CountCalls(trace, name) ==
  IF trace = <<>> THEN 0
  ELSE (IF Head(trace).call = name THEN 1 ELSE 0) + CountCalls(Tail(trace), name)

\* The positions of the calls named `name` in a trace.
Positions(trace, name) == {k \in 1..Len(trace) : trace[k].call = name}

Balanced ==
  /\ stack["cm.start"] = stack["cm.stop"]
  /\ stack["acquire"] = stack["release"]
  /\ stack["allocate"] = stack["free"]

Released == cam_manager = NULL /\ camera.id = NULL /\ allocator = NULL

\* The state of pooled request k once start_camera has queued it (its call k),
\* given the completions `done` the stack delivered while start_camera ran:
\* still with the device, or completed since with the status delivered.
SubmittedState(done, k) ==
  LET ev == {j \in 1..Len(done) : done[j].cookie = k - 1 /\ done[j].gap >= k}
  IN IF ev = {} THEN "queued"
     ELSE done[CHOOSE j \in ev : \A i \in ev : i <= j].status

\* The state of a pooled request start_camera did not get to, given `done`: as
\* it was, unless the device held it and the stack has completed it meanwhile.
UnsubmittedState(req, done) ==
  LET ev == {j \in 1..Len(done) : done[j].cookie = req.cookie}
  IN IF ev = {} THEN req.state
     ELSE done[CHOOSE j \in ev : \A i \in ev : i <= j].status

\* The stack answered every call of the last open_camera with success.
OpenAllSucceeded ==
  /\ lastOp.op = "open_camera"
  /\ lastOp.resp.cmStart = 0 /\ lastOp.resp.cameras /\ lastOp.resp.acquire = 0
  /\ lastOp.resp.genConf /\ lastOp.resp.vfmt = YUV420
  /\ lastOp.resp.configure = 0 /\ lastOp.resp.allocate >= 0
  /\ lastOp.resp.createFail = -1 /\ lastOp.resp.addFail = -1

\* C1: with a sensor that reports its pixel array and a stack whose calls all
\* succeed, open_camera returns 0 and stores the session, start_camera returns
\* 0 with the device started and every request submitted (and with the device
\* unless the stack has completed it already), and close_camera after
\* the one open_camera leaves start/stop, acquire/release and allocate/free
\* balanced with manager, device and allocator released.
C1_OpenStartCloseReleasesAll ==
  /\ (OpenAllSucceeded /\ sensor.has_value)
       => (crashed = "no" /\ lastOp.ret = 0
           /\ cam_manager # NULL /\ camera.id # NULL /\ allocator # NULL)
  /\ (lastOp.op = "start_camera" /\ crashed = "no"
       /\ lastOp.resp.start = 0 /\ lastOp.resp.qfail = -1)
       => (lastOp.ret = 0 /\ camera.running
           /\ CountCalls(lastOp.trace, "queueRequest") = Len(requests)
           /\ \A k \in 1..Len(requests) :
                requests[k].state = SubmittedState(lastOp.resp.done, k))
  /\ (lastOp.op = "close_camera" /\ crashed = "no" /\ opens = 1)
       => (Balanced /\ Released /\ requests = <<>>
           /\ stack["cm.start"] = 1 /\ stack["acquire"] = 1 /\ stack["allocate"] = 1)

\* C1 witness: the one session opened was closed while both of its requests
\* were still queued by start_camera, and nothing is held.
C1_Witness ==
  /\ lastOp.op = "close_camera" /\ crashed = "no" /\ opens = 1
  /\ lastOp.resp = <<0, 1>>
  /\ Balanced /\ Released

\* The stack made some call of the last open_camera fail.
OpenFault(r) ==
  \/ r.cmStart # 0 \/ ~r.cameras \/ r.acquire # 0 \/ ~r.genConf
  \/ r.vfmt # YUV420 \/ r.configure # 0 \/ r.allocate < 0
  \/ r.createFail >= 0 \/ r.addFail >= 0

\* The failure comes before the pixel array size is read on line 104.
EarlyOpenFault(r) == r.cmStart # 0 \/ ~r.cameras \/ r.acquire # 0 \/ ~r.genConf

\* C2: an open_camera in which the stack fails one stage returns a non-zero
\* status having stopped the manager iff it was started, released the device
\* iff it was acquired and freed the buffers iff they were allocated, each
\* once, the buffers before the device and the device before the manager.
C2_FailedOpenReleasesWhatItAcquired ==
  (/\ lastOp.op = "open_camera"
   /\ OpenFault(lastOp.resp)
   /\ sensor.has_value \/ EarlyOpenFault(lastOp.resp))
  => /\ crashed = "no"
     /\ lastOp.ret # 0
     /\ CountCalls(lastOp.trace, "cm.stop") = CountOk(lastOp.trace, "cm.start")
     /\ CountCalls(lastOp.trace, "release") = CountOk(lastOp.trace, "acquire")
     /\ CountCalls(lastOp.trace, "free") = CountOk(lastOp.trace, "allocate")
     /\ CountCalls(lastOp.trace, "cm.start") = 1
     /\ CountCalls(lastOp.trace, "acquire") <= 1
     /\ CountCalls(lastOp.trace, "allocate") <= 1
     /\ \A f \in Positions(lastOp.trace, "free"),
           d \in Positions(lastOp.trace, "release") : f < d
     /\ \A d \in Positions(lastOp.trace, "release"),
           m \in Positions(lastOp.trace, "cm.stop") : d < m

\* C2 witness: binding the second of two buffers failed; open_camera returned
\* -EINVAL after freeing the buffers, releasing the device and stopping the
\* manager.
C2_Witness ==
  /\ lastOp.op = "open_camera" /\ crashed = "no"
  /\ lastOp.resp.addFail = 1 /\ lastOp.resp.allocate = 2
  /\ lastOp.ret = -EINVAL
  /\ CountCalls(lastOp.trace, "free") = 1
  /\ CountCalls(lastOp.trace, "release") = 1
  /\ CountCalls(lastOp.trace, "cm.stop") = 1

StartFailed == lastOp.op = "start_camera" /\ crashed = "no" /\ lastOp.ret # 0

\* C3 as stated: after a failed start_camera the session has been unwound (no
\* started device, no queued request, nothing allocated, acquired or running).
C3_FailedStartUnwinds ==
  StartFailed
  => /\ Released /\ requests = <<>>
     /\ ~camera.running
     /\ Balanced

ReleaseCalls == {"camera.stop", "requests.clear", "free", "release", "cm.stop"}

\* C3 amended: a failed start_camera returns the failing stack status at once
\* and unwinds nothing: it makes no stop, clear, free or release call, the
\* manager, device, allocator and request pool stay held for close_camera; if
\* camera->start failed no request was submitted, and if queuing request k
\* failed the device is left started with requests 0..k-1 submitted, each
\* still with the device unless the stack has completed it meanwhile.
C3_FailedStartLeavesSessionOpen ==
  StartFailed
  => /\ \A c \in ReleaseCalls : CountCalls(lastOp.trace, c) = 0
     /\ cam_manager # NULL /\ camera.id # NULL /\ allocator # NULL
     /\ stack["cm.start"] > stack["cm.stop"]
     /\ stack["acquire"] > stack["release"]
     /\ stack["allocate"] > stack["free"]
     /\ lastOp.ret \in StackErrors
     /\ lastOp.resp.start # 0
          => /\ lastOp.ret = lastOp.resp.start
             /\ CountCalls(lastOp.trace, "queueRequest") = 0
     /\ lastOp.resp.start = 0
          => /\ lastOp.resp.qfail >= 0
             /\ camera.running
             /\ CountCalls(lastOp.trace, "queueRequest") = lastOp.resp.qfail + 1
             /\ \A k \in 1..lastOp.resp.qfail :
                  requests[k].state = SubmittedState(lastOp.resp.done, k)
             /\ Len(requests) > lastOp.resp.qfail

\* C3 witness: queuing the second request failed; the device is started, the
\* first request is queued and the session is still held.
C3_Witness ==
  /\ StartFailed
  /\ lastOp.resp.start = 0 /\ lastOp.resp.qfail = 1
  /\ camera.running
  /\ requests[1].state = "queued" /\ requests[2].state = "pending"
  /\ cam_manager # NULL /\ allocator # NULL

\* The callbacks owed for a sequence of completion events of the stored
\* session: none for a cancelled one, else one with the session's token and
\* the request's cookie.
RECURSIVE CallbacksOwed(_, _)
CallbacksOwed(events, token) ==
  IF events = <<>> THEN <<>>
  ELSE (IF Head(events).status = "cancelled" THEN <<>>
        ELSE <<[handle |-> token, cookie |-> Head(events).cookie]>>)
       \o CallbacksOwed(Tail(events), token)

\* C4 as stated: for every completion the stack delivers, whichever entry
\* point is running meanwhile: a cancelled one invokes no caller callback; any
\* other invokes it once, with the token stored by the open_camera that opened
\* the session the request belongs to and with the request's cookie, which is
\* its index in that session's pool.
C4_CompletionDispatch ==
  [][lastOp' # lastOp =>
     /\ lastOp'.op = "requestComplete"
          => lastOp'.calls =
               CallbacksOwed(<<[cookie |-> lastOp'.args[1], status |-> lastOp'.resp]>>,
                             callback_handle)
     /\ (lastOp'.op = "start_camera" /\ crashed' = "no")
          => lastOp'.calls = CallbacksOwed(lastOp'.resp.done, callback_handle)
     /\ lastOp'.op = "open_camera"
          => lastOp'.calls = CallbacksOwed(lastOp'.resp.race, callback_handle)
     /\ lastOp'.op = "close_camera" => lastOp'.calls = <<>>
     /\ \A j \in 1..Len(lastOp'.calls) :
          /\ lastOp'.calls[j].cookie < Len(requests)
          /\ requests[lastOp'.calls[j].cookie + 1].cookie = lastOp'.calls[j].cookie
     /\ (lastOp'.op = "open_camera" /\ crashed' = "no" /\ lastOp'.ret = 0)
          => callback_handle' = lastOp'.args[3]]_vars

\* C5 as stated: queue_request with an index past the pool returns an error
\* status to the caller, submits nothing and does not end the process.
C5_OutOfRangeIsReturned ==
  (lastOp.op = "queue_request" /\ lastOp.args[1] >= num_buffers)
  => /\ crashed = "no"
     /\ lastOp.ret # 0
     /\ lastOp.trace = <<>>

\* All planes share the first plane's descriptor and each begins where the
\* one before it ends.
Contiguous(planes) ==
  \A k \in 1..Len(planes) :
    /\ planes[k].fd = planes[1].fd
    /\ k > 1 => planes[k].offset = planes[k - 1].offset + planes[k - 1].length

RECURSIVE SumLengths(_)
SumLengths(planes) ==
  IF planes = <<>> THEN 0 ELSE Head(planes).length + SumLengths(Tail(planes))

\* buffer_at ran on an allocated buffer of an open session.
BufferAtRan == lastOp.op = "buffer_at" /\ crashed # "undefined"

\* C6 as stated: for a buffer whose planes share one descriptor and lie back
\* to back from any base offset, buffer_at returns {fd, first offset, sum of
\* the plane lengths} and does not abort.
C6_ContiguousBufferDescribed ==
  (BufferAtRan /\ Contiguous(lastOp.resp))
  => /\ crashed = "no"
     /\ lastOp.ret = [fd |-> lastOp.resp[1].fd,
                      offset |-> lastOp.resp[1].offset,
                      length |-> SumLengths(lastOp.resp)]

\* C7: for a buffer in which a plane uses another descriptor than the first
\* plane's, or does not begin where the plane before it ends, buffer_at
\* aborts and returns nothing.
C7_NonContiguousAborts ==
  (BufferAtRan /\ ~Contiguous(lastOp.resp)) => crashed = "abort"

\* C7 witness: buffer_at aborted on two planes of one descriptor with a gap
\* between them, the first at offset 0.
C7_Witness ==
  /\ BufferAtRan
  /\ lastOp.resp = <<[fd |-> 3, offset |-> 0, length |-> 1],
                     [fd |-> 3, offset |-> 2, length |-> 1]>>
  /\ crashed = "abort"

OpenSucceeded == lastOp.op = "open_camera" /\ crashed = "no" /\ lastOp.ret = 0

\* C8: after a successful open_camera frame_format() is the size and stride
\* validate() left in stream 0, which is the requested width and height when
\* the stack did not adjust them; when validate() substitutes another pixel
\* format open_camera returns -EINVAL having released the device and stopped
\* the manager, without calling configure.
C8_FrameFormatAndFormatRejected ==
  /\ (OpenSucceeded /\ ~lastOp.resp.adjust)
       => frame_format = [width |-> lastOp.args[1], height |-> lastOp.args[2],
                          stride |-> AlignedStride(lastOp.args[1])]
  /\ (OpenSucceeded /\ lastOp.resp.adjust)
       => frame_format = [width |-> 1, height |-> 1, stride |-> AlignedStride(1)]
  /\ (/\ lastOp.op = "open_camera"
      /\ lastOp.resp.vfmt # YUV420
      /\ ~EarlyOpenFault(lastOp.resp)
      /\ sensor.has_value)
       => /\ crashed = "no"
          /\ lastOp.ret = -EINVAL
          /\ CountCalls(lastOp.trace, "configure") = 0
          /\ CountCalls(lastOp.trace, "allocate") = 0
          /\ CountCalls(lastOp.trace, "release") = 1
          /\ CountCalls(lastOp.trace, "cm.stop") = 1
          /\ lastOp.trace[Len(lastOp.trace) - 1].call = "release"
          /\ lastOp.trace[Len(lastOp.trace)].call = "cm.stop"

\* C8 witness: open_camera(2, 1, handle) succeeded with the size validated
\* as requested, and frame_format() reports 2 x 1.
C8_Witness ==
  /\ OpenSucceeded
  /\ ~lastOp.resp.adjust
  /\ lastOp.args[1] = 2 /\ lastOp.args[2] = 1
  /\ frame_format.width = 2 /\ frame_format.height = 1

CallsOf(trace) == [k \in 1..Len(trace) |-> trace[k].call]

\* C9: every close_camera on an open session makes exactly these stack calls
\* in this order: stop the device, destroy the requests, free the buffers,
\* release the device, stop the manager.
C9_CloseOrder ==
  (lastOp.op = "close_camera" /\ crashed = "no")
  => /\ CallsOf(lastOp.trace) =
          <<"camera.stop", "requests.clear", "free", "release", "cm.stop">>
     /\ requests = <<>>
     /\ Released

\* C9 witness: close_camera ran on a running session (stop cancelled a queued
\* request) and made the five calls.
C9_Witness ==
  /\ lastOp.op = "close_camera" /\ crashed = "no"
  /\ lastOp.resp # <<>>
  /\ Len(lastOp.trace) = 5
  /\ lastOp.trace[1].call = "camera.stop"
  /\ lastOp.trace[5].call = "cm.stop"

\* C10 as stated: an open_camera call made while a session is open is
\* rejected with an error status and leaves the statics of the existing
\* session as they were, with no further manager started, device acquired or
\* buffers allocated and left unreleased.
C10_ReopenRejected ==
  [][(camera.id # NULL /\ opens' = opens + 1)
     => /\ crashed' = "no"
        /\ lastOp'.ret # 0
        /\ UNCHANGED statics
        /\ stack'["cm.start"] - stack'["cm.stop"] = stack["cm.start"] - stack["cm.stop"]
        /\ stack'["acquire"] - stack'["release"] = stack["acquire"] - stack["release"]
        /\ stack'["allocate"] - stack'["free"] = stack["allocate"] - stack["free"]]_vars

\* C11 as stated: when close_camera returns, the manager, the device, the
\* validated configuration, the allocator and the request collection have all
\* been released, in the order requests, buffers, device, manager, and
\* frame_format() has no configuration of the closed session left to read.
C11_CloseReleasesEverything ==
  (lastOp.op = "close_camera" /\ crashed = "no")
  => /\ Released
     /\ requests = <<>>
     /\ CallsOf(lastOp.trace) =
          <<"camera.stop", "requests.clear", "free", "release", "cm.stop">>
     /\ config = <<>>

\* A step in which start_camera ran on an open session.
StartStep == lastOp'.op = "start_camera" /\ crashed' = "no"

\* The request as start_camera's loop and the stack's thread leave it once
\* it has been submitted.
Submitted(req, done, k) == [req EXCEPT !.state = SubmittedState(done, k)]

\* C12: start_camera first starts the device; if that fails it submits no
\* request and changes none.  Otherwise it submits the pooled requests in pool
\* order, none twice: when every submission succeeds all of them have been
\* queued, each once, and 0 is returned; when the submission of request k
\* fails that status is returned at once, requests 0..k-1 stay submitted and
\* the requests from k on are not submitted and start_camera leaves them as
\* they were.  start_camera withdraws nothing: a submitted request is with the
\* device unless the stack has completed it while start_camera was still
\* running, and the stack completes only what the device holds at that moment,
\* between two submissions.
C12_StartQueuesInPoolOrder ==
  [][StartStep =>
     LET t == lastOp'.trace
         r == lastOp'.resp
         n == Len(requests)
     IN /\ t[1].call = "camera.start" /\ t[1].ret = r.start
        /\ \A j \in 2..Len(t) :
             /\ t[j].call = "queueRequest"
             /\ t[j].arg = j - 2
             /\ j < Len(t) => t[j].ret = 0
        /\ Len(requests') = n
        /\ r.start # 0
             => /\ Len(t) = 1
                /\ lastOp'.ret = r.start
                /\ requests' = requests
        /\ (r.start = 0 /\ r.qfail = -1)
             => /\ lastOp'.ret = 0
                /\ Len(t) = n + 1
                /\ n > 0 => t[Len(t)].ret = 0
                /\ \A k \in 1..n : requests'[k] = Submitted(requests[k], r.done, k)
        /\ (r.start = 0 /\ r.qfail >= 0)
             => /\ Len(t) = r.qfail + 2
                /\ t[Len(t)].ret # 0
                /\ lastOp'.ret = t[Len(t)].ret
                /\ \A k \in 1..r.qfail :
                     requests'[k] = Submitted(requests[k], r.done, k)
                /\ \A k \in r.qfail + 1..n :
                     requests'[k] =
                       [requests[k] EXCEPT !.state = UnsubmittedState(requests[k], r.done)]
        /\ \A j \in 1..Len(r.done) :
             /\ r.done[j].gap >= 1 /\ r.done[j].gap < Len(t) - 1
             /\ \/ r.done[j].cookie < r.done[j].gap
                \/ requests[r.done[j].cookie + 1].state = "queued"]_vars

\* C12 witness: start_camera returned 0 having submitted request 0 and then
\* request 1; the stack completed request 0 and notified the caller before
\* request 1 was submitted, and request 1 is queued.
C12_Witness ==
  /\ lastOp.op = "start_camera" /\ crashed = "no" /\ lastOp.ret = 0
  /\ lastOp.trace = <<Call("camera.start", 0), CallOn("queueRequest", 0, 0),
                      CallOn("queueRequest", 1, 0)>>
  /\ lastOp.resp.done = <<[gap |-> 1, cookie |-> 0, status |-> "complete"]>>
  /\ lastOp.calls = <<[handle |-> callback_handle, cookie |-> 0]>>
  /\ Len(requests) = 2
  /\ requests[1].state = "complete" /\ requests[2].state = "queued"

\* C13 as stated: for every (width, height) passed to start_camera and every
\* pixel array size (W, H), with (W, H) = (width, height) when the device
\* reports none, the crop applied has the requested width and height and the
\* origin ((W - width) / 2, (H - height) / 2) with no wrap-around, so it lies
\* within the pixel array; without a pixel array size the origin is (0, 0).
C13_CropCentredWithinPixelArray ==
  (lastOp.op = "start_camera" /\ crashed = "no")
  => LET crop == lastOp.resp.crop
         width == lastOp.args[1]
         height == lastOp.args[2]
         W == IF sensor.has_value THEN sensor.value.width ELSE width
         H == IF sensor.has_value THEN sensor.value.height ELSE height
     IN /\ crop.width = width /\ crop.height = height
        /\ crop.x <= W - width /\ crop.y <= H - height
        /\ crop.x = (W - width) \div 2 /\ crop.y = (H - height) \div 2
        /\ ~sensor.has_value => (crop.x = 0 /\ crop.y = 0)

\* The calls of a trace that reset or submit a pooled request.
OnRequest(trace) ==
  {j \in 1..Len(trace) : trace[j].call \in {"reuse", "queueRequest"}}

\* The changes of a request's state in one step: idle ("pending") to queued,
\* queued to completed or cancelled, completed through idle to queued again
\* (or left idle when the submission failed).
LifecycleSteps ==
  {<<"pending", "queued">>, <<"queued", "complete">>, <<"queued", "cancelled">>,
   <<"complete", "queued">>, <<"complete", "pending">>}

\* C14: with a caller that serialises its calls, starts a session once and
\* calls queue_request(i) only to answer a notification for cookie i, in every
\* interleaving with the stack's completions: queue_request(i) resets request
\* i and then submits it, leaving it bound to buffer i; no request is reset or
\* submitted while the device holds it; and each request's state only moves
\* idle -> queued -> completed (or cancelled) -> idle.
C14_RequestLifecycle ==
  [][/\ lastOp' # lastOp
          => \A j \in OnRequest(lastOp'.trace) :
               /\ lastOp'.trace[j].arg < Len(requests)
               /\ requests[lastOp'.trace[j].arg + 1].state # "queued"
     /\ (lastOp'.op = "queue_request" /\ lastOp' # lastOp)
          => LET i == lastOp'.args[1] IN
             /\ crashed' = "no"
             /\ lastOp'.trace = <<CallOn("reuse", i, 0),
                                  CallOn("queueRequest", i, lastOp'.ret)>>
             /\ requests'[i + 1].buffer = i /\ requests'[i + 1].cookie = i
             /\ requests'[i + 1].state = IF lastOp'.ret = 0 THEN "queued" ELSE "pending"
             /\ \A k \in 1..Len(requests) : k # i + 1 => requests'[k] = requests[k]
     /\ Len(requests') = Len(requests)
          => \A k \in 1..Len(requests) :
               \/ requests'[k].state = requests[k].state
               \/ <<requests[k].state, requests'[k].state>> \in LifecycleSteps
               \* queued by start_camera and completed before it returned
               \/ /\ lastOp'.op = "start_camera"
                  /\ requests[k].state = "pending"
                  /\ \E j \in 1..Len(lastOp'.resp.done) :
                       /\ lastOp'.resp.done[j].cookie = k - 1
                       /\ lastOp'.resp.done[j].status = requests'[k].state]_vars

\* C14 witness: the caller answered the notification for cookie 1:
\* queue_request(1) reset and resubmitted request 1, which is queued again.
C14_Witness ==
  /\ lastOp.op = "queue_request" /\ crashed = "no"
  /\ lastOp.args = <<1>> /\ lastOp.ret = 0
  /\ lastOp.trace = <<CallOn("reuse", 1, 0), CallOn("queueRequest", 1, 0)>>
  /\ camera.running
  /\ requests[2] = [cookie |-> 1, buffer |-> 1, state |-> "queued"]

\* Request k of the pool in the state before a step and after it is the same
\* request: same cookie, same buffer.
SamePool ==
  /\ Len(requests') = Len(requests)
  /\ \A k \in 1..Len(requests) :
       /\ requests'[k].cookie = requests[k].cookie
       /\ requests'[k].buffer = requests[k].buffer

\* C15: a successful open_camera leaves one request per allocated buffer,
\* request i with cookie i and buffer i; num_buffers() is that number in every
\* state until close_camera; and start_camera, queue_request, buffer_at and
\* completions leave the number, order, cookies and bindings of the requests
\* as they were.
C15_PoolFixed ==
  [][/\ (lastOp'.op = "open_camera" /\ crashed' = "no" /\ lastOp'.ret = 0)
          => /\ num_buffers' = lastOp'.resp.allocate
             /\ \A k \in 1..Len(requests') : requests'[k] = NewRequest(k - 1)
     /\ lastOp'.op \in {"start_camera", "queue_request", "requestComplete"}
          => (SamePool /\ num_buffers' = num_buffers)
     /\ \A k \in 1..Len(requests') :
          requests'[k].cookie = k - 1 /\ requests'[k].buffer = k - 1]_vars

\* C15 witness: in a pool of two, request 0 was cancelled and request 1 is
\* queued; both still carry their own cookie and buffer.
C15_Witness ==
  /\ lastOp.op = "requestComplete" /\ lastOp.resp = "cancelled"
  /\ num_buffers = 2
  /\ requests = <<[cookie |-> 0, buffer |-> 0, state |-> "cancelled"],
                  [cookie |-> 1, buffer |-> 1, state |-> "queued"]>>

\* Request i of a running session was reported cancelled and has not been
\* submitted since.
CancelledWhileRunning(i) ==
  /\ camera.running
  /\ i < Len(requests)
  /\ requests[i + 1].state = "cancelled"

\* Request i is with the device again, or its session has been torn down.
RequeuedOrTornDown(i) ==
  \/ camera.id = NULL
  \/ i < Len(requests) /\ requests[i + 1].state = "queued"

\* C16 as stated: under the caller's discipline, a request reported cancelled
\* while the session is running is eventually re-queued or torn down; a
\* running session does not keep it unqueued for ever.
C16_CancelledEventuallyRequeued ==
  \A i \in 0..MaxBuffers - 1 :
    [](CancelledWhileRunning(i) => <>RequeuedOrTornDown(i))

\* C17 as stated: for every response of the stack, a device without a pixel
\* array size included, open_camera returns a status; when that status is a
\* failure the device has been released if it was acquired and the manager
\* stopped if it was started; it never ends abnormally holding them.
C17_OpenAlwaysReturns ==
  lastOp.op = "open_camera"
  => /\ crashed = "no"
     /\ lastOp.ret # 0
          => /\ CountCalls(lastOp.trace, "release") = CountOk(lastOp.trace, "acquire")
             /\ CountCalls(lastOp.trace, "cm.stop") = CountOk(lastOp.trace, "cm.start")

\* A step in which open_camera ran and did not return 0.
FailedOpenStep ==
  /\ opens' = opens + 1
  /\ lastOp'.ret # 0 \/ crashed' # "no"

\* C18: an open_camera that fails leaves cam_manager, camera, allocator,
\* config, requests and callback_handle as they were before the call, so
\* num_buffers() and frame_format() answer as before, and it has not connected
\* the completion handler; a successful one connects it once, as its last
\* stack call, after every fallible step.
C18_FailedOpenChangesNothing ==
  [][/\ FailedOpenStep
          => /\ UNCHANGED statics
             /\ num_buffers' = num_buffers
             /\ config # <<>> => frame_format' = frame_format
             /\ CountCalls(lastOp'.trace, "connect") = 0
     /\ (opens' = opens + 1 /\ ~FailedOpenStep)
          => /\ CountCalls(lastOp'.trace, "connect") = 1
             /\ lastOp'.trace[Len(lastOp'.trace)].call = "connect"
             /\ \A j \in 1..Len(lastOp'.trace) : lastOp'.trace[j].ret >= 0]_vars

\* C18 witness: with a session of two buffers open under token 2, another
\* open_camera failed while binding its second buffer; the stored session is
\* the first one, untouched.
C18_Witness ==
  /\ lastOp.op = "open_camera" /\ crashed = "no"
  /\ lastOp.ret = -EINVAL /\ lastOp.resp.addFail = 1
  /\ opens = 2
  /\ camera.id = 1 /\ cam_manager = 1 /\ allocator = 1
  /\ callback_handle = 2
  /\ num_buffers = 2

\* The cookies of the requests the device holds.
RECURSIVE QueuedCookies(_)
QueuedCookies(reqs) ==
  IF reqs = <<>> THEN <<>>
  ELSE (IF Head(reqs).state = "queued" THEN <<Head(reqs).cookie>> ELSE <<>>)
       \o QueuedCookies(Tail(reqs))

\* C19: with the stack's thread completing requests at any point between the
\* caller's calls: close_camera's stop cancels exactly the requests still
\* queued and none of them reaches the caller; the device is stopped before
\* the requests are destroyed; the completion handler runs only on a request
\* that exists and that the device holds; and no caller callback is made on a
\* closed session, which holds no request that could still complete.
C19_CloseAndCompletions ==
  [][/\ (lastOp'.op = "close_camera" /\ lastOp' # lastOp)
          => /\ lastOp'.resp = QueuedCookies(requests)
             /\ lastOp'.calls = <<>>
             /\ \A s \in Positions(lastOp'.trace, "camera.stop"),
                   c \in Positions(lastOp'.trace, "requests.clear") : s < c
             /\ Positions(lastOp'.trace, "camera.stop") # {}
             /\ requests' = <<>>
     /\ (lastOp'.op = "requestComplete" /\ lastOp' # lastOp)
          => /\ camera.id # NULL
             /\ lastOp'.args[1] < Len(requests)
             /\ requests[lastOp'.args[1] + 1].state = "queued"
     /\ (lastOp'.calls # <<>> /\ lastOp' # lastOp)
          => /\ camera.id # NULL
             /\ \A j \in 1..Len(lastOp'.calls) :
                  /\ lastOp'.calls[j].handle = callback_handle
                  /\ lastOp'.calls[j].cookie < Len(requests)
     /\ camera'.id = NULL => QueuedCookies(requests') = <<>>]_vars

\* C19 witness: close_camera ran while request 1 was still queued and request
\* 0 had completed; stop cancelled request 1 and the caller was not called.
C19_Witness ==
  /\ lastOp.op = "close_camera" /\ crashed = "no"
  /\ lastOp.resp = <<1>>
  /\ lastOp.calls = <<>>
  /\ requests = <<>> /\ camera.id = NULL
====
